---- MODULE Spec2Model ----
(***************************************************************************)
(* HDHomeRun DVR auto cleanup (hdhr_cleanup.py): fetch the recordings,     *)
(* group them by show, keep the newest N per show and delete the rest.     *)
(*                                                                         *)
(* Python values are modelled as follows.                                  *)
(*   dict            a function whose DOMAIN is the set of keys present    *)
(*   str             a sequence of one-character strings                   *)
(*   None / value    None, Some(v)                                         *)
(*   object identity the field "ix" that get_recordings' flattening puts   *)
(*                   on every episode: its position in the fetched list    *)
(* Message texts are reduced to the values they are formatted from.        *)
(***************************************************************************)
EXTENDS Integers, Sequences, FiniteSets, TLC

VARIABLES
    dvr,              \* what the DVR answers during this pass
    CONFIG,           \* the global CONFIG dict
    environ,          \* the process environment (os.getenv)
    args,             \* the parsed command line
    pc,               \* position of the single thread of control
    all_recordings,   \* cleanup_all_shows: result of get_recordings()
    shows,            \* cleanup_all_shows: ordered dict title -> recs
    show_i,           \* index of the show the for loop is at
    show_max,         \* retention count resolved for that show
    to_delete,        \* deletion list of that show
    del_i,            \* index of the episode the inner loop is at
    success_count,
    total_deleted,
    shows_cleaned,
    attempts,         \* delete_recording calls made in this pass
    notes,            \* webhook posts made in this pass
    logs,             \* log records written in this pass
    delivery_failed   \* some webhook post of this pass raised

vars == <<dvr, CONFIG, environ, args, pc, all_recordings, shows, show_i,
          show_max, to_delete, del_i, success_count, total_deleted,
          shows_cleaned, attempts, notes, logs, delivery_failed>>

passvars == <<all_recordings, shows, show_i, show_max, to_delete, del_i,
              success_count, total_deleted, shows_cleaned, attempts, notes,
              logs, delivery_failed>>

----------------------------------------------------------------------------
(* Bounds *)

MaxEpisodes == 2      \* recordings the DVR holds, main specification
MaxGroup == 3         \* size of a show group, policy specification
MaxK == 2             \* largest retention count
MaxSeries == 3        \* series in the top-level list, fetch specification

DEFAULT_MAX_EPISODES == 5

----------------------------------------------------------------------------
(* Python values *)

EmptyDict == << >>
EmptyStr == << >>

None == [some |-> FALSE]
Some(v) == [some |-> TRUE, val |-> v]

Get(d, key, default) == IF key \in DOMAIN d THEN d[key] ELSE default

Min(a, b) == IF a < b THEN a ELSE b
Max(a, b) == IF a > b THEN a ELSE b

\* s[:stop]
SliceTo(s, stop) ==
    LET e == IF stop < 0 THEN Max(Len(s) + stop, 0) ELSE Min(stop, Len(s))
    IN  SubSeq(s, 1, e)

\* index of the first occurrence of pat in s, 0 when there is none
Find(s, pat) ==
    LET hits == {i \in 1..(Len(s) - Len(pat) + 1) :
                    SubSeq(s, i, i + Len(pat) - 1) = pat}
    IN  IF hits = {} THEN 0 ELSE CHOOSE i \in hits : \A j \in hits : i <= j

\* pat in s
Contains(s, pat) == Find(s, pat) # 0

RECURSIVE Split(_, _)
\* s.split(sep), sep not empty
Split(s, sep) ==
    LET i == Find(s, sep)
    IN  IF i = 0 THEN <<s>>
        ELSE <<SubSeq(s, 1, i - 1)>> \o Split(SubSeq(s, i + Len(sep), Len(s)), sep)

LowerChar(c) ==
    CASE c = "A" -> "a"
      [] c = "B" -> "b"
      [] c = "U" -> "u"
      [] OTHER -> c

\* s.lower()
Lower(s) == [i \in 1..Len(s) |-> LowerChar(s[i])]

----------------------------------------------------------------------------
(* send_discord_notification *)

Msg(type, kind, title, n, m) ==
    [type |-> type, kind |-> kind, title |-> title, n |-> n, m |-> m]

\* the error category never posted
Sends_ErrorDropped(notification_type) ==
    LET discord_config == Get(CONFIG, "discord", EmptyDict) IN
    /\ Get(discord_config, "enabled", FALSE)
    /\ ~(notification_type = "startup"
            /\ ~Get(discord_config, "notify_on_startup", TRUE))
    /\ ~(notification_type \in {"info", "success", "warning"}
            /\ ~Get(discord_config, "notify_on_cleanup", TRUE))
    /\ notification_type # "error"
    /\ Get(environ, "DISCORD_WEBHOOK_URL", EmptyStr) # EmptyStr

\* TRUE when send_discord_notification reaches requests.post
Sends(notification_type) ==
    LET discord_config == Get(CONFIG, "discord", EmptyDict) IN
    /\ Get(discord_config, "enabled", FALSE)
    /\ ~(notification_type = "startup"
            /\ ~Get(discord_config, "notify_on_startup", TRUE))
    /\ ~(notification_type \in {"info", "success", "warning"}
            /\ ~Get(discord_config, "notify_on_cleanup", TRUE))
    /\ ~(notification_type = "error"
            /\ ~Get(discord_config, "notify_on_error", TRUE))
    /\ Get(environ, "DISCORD_WEBHOOK_URL", EmptyStr) # EmptyStr

\* the calls of msgs, in order; a post that raises is swallowed
Notify(msgs) ==
    LET posted == SelectSeq(msgs, LAMBDA m : Sends(m.type)) IN
    /\ notes' = notes \o posted
    /\ \E raised \in BOOLEAN :
          delivery_failed' = (delivery_failed \/ (raised /\ posted # << >>))

----------------------------------------------------------------------------
(* get_recordings *)

RECURSIVE FetchEpisodes_Abort(_)
\* a failing episode fetch ends the loop
FetchEpisodes_Abort(series_list) ==
    IF series_list = << >> THEN [episodes |-> << >>, failed |-> << >>]
    ELSE
        LET series == Head(series_list)
            series_title == series.json.Title
            rest == FetchEpisodes_Abort(Tail(series_list))
        IN  IF "EpisodesURL" \notin DOMAIN series.json
            THEN rest
            ELSE IF series.ok
            THEN [episodes |->
                     [i \in 1..Len(series.episodes) |->
                         ("SeriesTitle" :> series_title) @@ series.episodes[i]]
                     \o rest.episodes,
                  failed |-> rest.failed]
            ELSE [episodes |-> << >>, failed |-> <<series_title>>]

RECURSIVE FetchEpisodes(_)
\* the for loop over series_list: the episodes collected and the warnings
FetchEpisodes(series_list) ==
    IF series_list = << >> THEN [episodes |-> << >>, failed |-> << >>]
    ELSE
        LET series == Head(series_list)
            series_title == series.json.Title
            rest == FetchEpisodes(Tail(series_list))
        IN  IF "EpisodesURL" \notin DOMAIN series.json
            THEN rest
            ELSE IF series.ok
            THEN [episodes |->
                     [i \in 1..Len(series.episodes) |->
                         ("SeriesTitle" :> series_title) @@ series.episodes[i]]
                     \o rest.episodes,
                  failed |-> rest.failed]
            ELSE [episodes |-> rest.episodes,
                  failed |-> <<series_title>> \o rest.failed]

get_recordings(d) ==
    IF d.ok
    THEN LET got == FetchEpisodes(d.series) IN
         [result |-> [i \in 1..Len(got.episodes) |->
                         ("ix" :> i) @@ got.episodes[i]],
          logs |-> [i \in 1..Len(got.failed) |->
                       Msg("warning", "episodes_failed", got.failed[i], 0, 0)]
                   \o <<Msg("info", "found", EmptyStr,
                            Len(got.episodes), Len(d.series))>>,
          msgs |-> [i \in 1..Len(got.failed) |->
                       Msg("error", "episodes_failed", got.failed[i], 0, 0)]]
    ELSE [result |-> << >>,
          logs |-> <<Msg("warning", "fetch_failed", EmptyStr, 0, 0)>>,
          msgs |-> <<Msg("error", "fetch_failed", EmptyStr, 0, 0)>>]

----------------------------------------------------------------------------
(* extract_recording_id, delete_recording *)

IdEq == <<"i", "d", "=">>
Amp == <<"&">>

extract_recording_id(recording) ==
    LET cmd_url == Get(recording, "CmdURL", EmptyStr)
        play_url == Get(recording, "PlayURL", EmptyStr)
    IN  IF Contains(cmd_url, IdEq)
        THEN Some(Split(Split(cmd_url, IdEq)[2], Amp)[1])
        ELSE IF Contains(play_url, IdEq)
        THEN Some(Split(Split(play_url, IdEq)[2], Amp)[1])
        ELSE IF "FileID" \in DOMAIN recording
        THEN Some(recording.FileID)
        ELSE None

\* not x, for x a str or None
Falsy(x) == ~x.some \/ x.val = EmptyStr

\* any response counted as a success
delete_recording_AnyStatus(recording, resp) ==
    LET file_id == extract_recording_id(recording) IN
    IF Falsy(file_id)
    THEN [posted |-> FALSE, ret |-> FALSE]
    ELSE [posted |-> TRUE, ret |-> "status_code" \in DOMAIN resp]

\* resp is what requests.post does: a response or an exception
delete_recording(recording, resp) ==
    LET file_id == extract_recording_id(recording) IN
    IF Falsy(file_id)
    THEN [posted |-> FALSE, ret |-> FALSE]
    ELSE [posted |-> TRUE,
          ret |-> ("status_code" \in DOMAIN resp /\ resp.status_code = 200)]

Ok200 == ("status_code" :> 200)

Responses ==
    {Ok200, ("status_code" :> 404), ("status_code" :> 500),
     ("exception" :> "Timeout")}

----------------------------------------------------------------------------
(* get_max_episodes_for_show *)

\* "if override_max:" in place of "if override_max is not None:", and the
\* same for the per-show override
get_max_episodes_for_show_Truthy(title, override_max) ==
    IF override_max # None /\ override_max.val # 0
    THEN override_max.val
    ELSE LET show_overrides == Get(CONFIG, "show_overrides", EmptyDict) IN
         IF title \in DOMAIN show_overrides /\ show_overrides[title] # 0
         THEN show_overrides[title]
         ELSE Get(CONFIG, "default_episodes", DEFAULT_MAX_EPISODES)

get_max_episodes_for_show(title, override_max) ==
    IF override_max # None
    THEN override_max.val
    ELSE LET show_overrides == Get(CONFIG, "show_overrides", EmptyDict) IN
         IF title \in DOMAIN show_overrides
         THEN show_overrides[title]
         ELSE Get(CONFIG, "default_episodes", DEFAULT_MAX_EPISODES)

----------------------------------------------------------------------------
(* cleanup_all_shows: grouping, filter, sort, trim *)

Unknown == <<"U", "n", "k", "n", "o", "w", "n">>

TitleOf(r) == Get(r, "Title", Unknown)

\* the groups that shows.setdefault(title, []).append(r) builds over the
\* recordings: one per title, in the order the titles first appear, each
\* holding its recordings in fetch order
GroupByTitle(recs) ==
    LET first == SelectSeq([i \in 1..Len(recs) |-> i],
                           LAMBDA i : \A j \in 1..(i - 1) :
                                         TitleOf(recs[j]) # TitleOf(recs[i]))
    IN  [k \in 1..Len(first) |->
            [title |-> TitleOf(recs[first[k]]),
             recs |-> SelectSeq(recs, LAMBDA r : TitleOf(r) = TitleOf(recs[first[k]]))]]

\* the filter not applied
MatchingShows_All(groups, target_show) == groups

\* the dict comprehension of the targeted cleanup
MatchingShows(groups, target_show) ==
    SelectSeq(groups,
              LAMBDA g : Contains(Lower(g.title), Lower(target_show)))

StartKey(r) == Get(r, "StartTime", 0)

\* the place of recs[i] after a stable sort by key: behind the elements
\* with a smaller key and the earlier elements with the same key
SortedPlace(recs, i) ==
    1 + Cardinality({j \in 1..Len(recs) :
                        \/ StartKey(recs[j]) < StartKey(recs[i])
                        \/ StartKey(recs[j]) = StartKey(recs[i]) /\ j < i})

\* the group left in fetch order
SortByStartTime_Unsorted(recs) == recs

\* recs.sort(key=lambda x: x.get("StartTime", 0)), a stable sort
SortByStartTime(recs) ==
    [p \in 1..Len(recs) |->
        recs[CHOOSE i \in 1..Len(recs) : SortedPlace(recs, i) = p]]

\* recs[:-0] without the special case of 0
Trim_NoZeroCase(recs, max) == SliceTo(recs, 0 - max)

\* recs[show_max:] in place of recs[:-show_max]
Trim_KeepOldest(recs, max) ==
    IF max = 0 THEN recs ELSE SubSeq(recs, max + 1, Len(recs))

\* the deletion list of a sorted group that is longer than max
Trim(recs, max) == IF max = 0 THEN recs ELSE SliceTo(recs, 0 - max)

----------------------------------------------------------------------------
(* The inputs: what the DVR answers, the configuration, the command line *)

\* no answer: the top-level fetch fails
Idle == [ok |-> FALSE, series |-> << >>]

TA == <<"A", "b">>
TB == <<"B">>

UrlPlain == <<"x">>
UrlId == <<"x", "?", "i", "d", "=", "4">>
UrlIdAmp == <<"?", "i", "d", "=", "4", "&", "x">>
UrlIdEmpty == <<"x", "?", "i", "d", "=">>
UrlIdEmptyAmp == <<"?", "i", "d", "=", "&", "x">>
UrlVid == <<"?", "v", "i", "d", "=", "7", "&", "i", "d", "=", "4">>
UrlPlayId == <<"p", "?", "i", "d", "=", "5">>
FileId == <<"9">>

\* a key that is present with one of vals, and a key that may be absent
Req(key, vals) == {(key :> v) : v \in vals}
Opt(key, vals) == Req(key, vals) \cup {EmptyDict}

SeqsUpTo(S, n) == UNION {[1..k -> S] : k \in 0..n}

\* the answers for one series: no episode list URL, a failing episode
\* fetch, or one of the episode lists
SeriesAnswers(title, lists) ==
    {[json |-> ("Title" :> title), ok |-> FALSE, episodes |-> << >>],
     [json |-> ("Title" :> title) @@ ("EpisodesURL" :> <<"u">>),
      ok |-> FALSE, episodes |-> << >>]}
    \cup {[json |-> ("Title" :> title) @@ ("EpisodesURL" :> <<"u">>),
           ok |-> TRUE, episodes |-> l] : l \in lists}

EpisodesOf(title) ==
    {("Title" :> title) @@ s @@ c :
        s \in Opt("StartTime", {1}), c \in Opt("CmdURL", {UrlId})}

\* two series holding at most MaxEpisodes recordings, or no answer
DVRAnswers ==
    {Idle}
    \cup {[ok |-> TRUE, series |-> <<p[1], p[2]>>] :
            p \in {q \in SeriesAnswers(TA, SeqsUpTo(EpisodesOf(TA), MaxEpisodes))
                          \X SeriesAnswers(TB, SeqsUpTo(EpisodesOf(TB), MaxEpisodes)) :
                      Len(q[1].episodes) + Len(q[2].episodes) <= MaxEpisodes}}

Discord(enabled, cleanup, startup, error) ==
    [enabled |-> enabled, notify_on_cleanup |-> cleanup,
     notify_on_startup |-> startup, notify_on_error |-> error]

DiscordOn == Discord(TRUE, TRUE, TRUE, TRUE)

Config(default, overrides, discord) ==
    [default_episodes |-> default, poll_interval_minutes |-> 1,
     show_overrides |-> overrides, discord |-> discord]

Webhook == ("DISCORD_WEBHOOK_URL" :> <<"w">>)

Args(list, show, once, max) ==
    [list |-> list, show |-> show, once |-> once, max_episodes |-> max]

Setup(config, env, a) == [CONFIG |-> config, environ |-> env, args |-> a]

\* continuous mode under every retention configuration
PolicySetups ==
    {Setup(Config(d, o, DiscordOn), Webhook, Args(FALSE, None, FALSE, m)) :
        d \in {0, 1},
        o \in {EmptyDict, (TA :> 0), (TA :> 2)},
        m \in {None, Some(0), Some(1)}}

\* the other modes
ModeSetups ==
    {Setup(Config(1, (TB :> 0), DiscordOn), Webhook, a) :
        a \in {Args(TRUE, None, FALSE, None), Args(FALSE, None, TRUE, None),
               Args(FALSE, None, TRUE, Some(0))}
              \cup {Args(FALSE, Some(f), o, m) :
                      f \in {<<"a">>, <<"B">>, <<"b", "a">>},
                      o \in BOOLEAN, m \in {None, Some(0)}}}

\* continuous mode under every notifier configuration
NotifierSetups ==
    {Setup(Config(1, (TB :> 0), d), e, Args(FALSE, None, FALSE, None)) :
        d \in {DiscordOn, Discord(FALSE, TRUE, TRUE, TRUE),
               Discord(TRUE, FALSE, TRUE, TRUE), Discord(TRUE, TRUE, FALSE, TRUE),
               Discord(TRUE, TRUE, TRUE, FALSE), EmptyDict},
        e \in {Webhook, EmptyDict}}

----------------------------------------------------------------------------
(* main and cleanup_all_shows as steps of the single thread *)

Mode ==
    IF args.list THEN "list"
    ELSE IF ~Falsy(args.show) THEN "show"
    ELSE IF args.once THEN "once"
    ELSE "continuous"

\* the loop left after one pass
AfterPass_Exit == "done"

\* where main continues when cleanup_all_shows returns
AfterPass == IF Mode = "continuous" THEN "sleep" ELSE "done"

\* "Cleanup complete." of the single-run modes
Returned == IF Mode = "continuous" THEN << >>
            ELSE <<Msg("info", "cleanup_complete", EmptyStr, 0, 0)>>

\* for title, recs in shows.items(): the next iteration or the end of the loop
NextShow ==
    /\ show_i' = show_i + 1
    /\ pc' = IF show_i + 1 > Len(shows) THEN "summary" ELSE "show"

\* main(), from parse_args to the first pass
Main ==
    /\ pc = "main"
    /\ IF Mode = "list" THEN pc' = "list" /\ UNCHANGED <<notes, delivery_failed>>
       ELSE IF Mode \in {"show", "once"}
       THEN pc' = "pass" /\ UNCHANGED <<notes, delivery_failed>>
       ELSE /\ pc' = "pass"
            /\ Notify(<<Msg("startup", "startup", EmptyStr,
                            IF args.max_episodes # None /\ args.max_episodes.val # 0
                            THEN args.max_episodes.val
                            ELSE Get(CONFIG, "default_episodes", DEFAULT_MAX_EPISODES),
                            Get(CONFIG, "poll_interval_minutes", 1))>>)
    /\ UNCHANGED <<dvr, CONFIG, environ, args, all_recordings, shows, show_i,
                   show_max, to_delete, del_i, success_count, total_deleted,
                   shows_cleaned, attempts, logs>>

\* main(), list mode
ListShows ==
    /\ pc = "list"
    /\ \E d \in DVRAnswers :
        LET got == get_recordings(d) IN
        /\ dvr' = d
        /\ all_recordings' = got.result
        /\ Notify(got.msgs)
        /\ IF got.result = << >>
           THEN /\ shows' = << >>
                /\ logs' = logs \o got.logs
                              \o <<Msg("info", "no_recordings", EmptyStr, 0, 0)>>
           ELSE /\ shows' = GroupByTitle(got.result)
                /\ logs' = logs \o got.logs
                              \o <<Msg("info", "found_shows", EmptyStr,
                                       Len(GroupByTitle(got.result)), 0)>>
    /\ pc' = "done"
    /\ UNCHANGED <<CONFIG, environ, args, show_i, show_max, to_delete, del_i,
                   success_count, total_deleted, shows_cleaned, attempts>>

\* the DVR's content at the time of a pass
Recorded ==
    /\ pc = "pass"
    /\ dvr' \in DVRAnswers
    /\ pc' = "fetch"
    /\ UNCHANGED <<CONFIG, environ, args>>
    /\ UNCHANGED passvars

\* cleanup_all_shows up to the for loop: fetch, group, filter
CleanupBegin ==
    /\ pc = "fetch"
    /\ LET got == get_recordings(dvr)
           target_show == IF Mode = "show" THEN args.show ELSE None
           groups == GroupByTitle(got.result)
           matching_shows == IF ~Falsy(target_show)
                             THEN MatchingShows(groups, target_show.val)
                             ELSE groups
       IN  /\ all_recordings' = got.result
           /\ IF got.result = << >>
              THEN /\ logs' = logs \o got.logs
                                 \o <<Msg("info", "no_recordings", EmptyStr, 0, 0)>>
                                 \o Returned
                   /\ Notify(got.msgs)
                   /\ shows' = << >>
                   /\ pc' = AfterPass
                   /\ UNCHANGED show_i
              ELSE IF matching_shows = << >>
              THEN /\ logs' = logs \o got.logs
                                 \o <<Msg("error", "no_match", target_show.val, 0, 0)>>
                                 \o Returned
                   /\ Notify(got.msgs
                               \o <<Msg("error", "no_match", target_show.val, 0, 0)>>)
                   /\ shows' = groups
                   /\ pc' = AfterPass
                   /\ UNCHANGED show_i
              ELSE /\ logs' = logs \o got.logs
                   /\ Notify(got.msgs)
                   /\ shows' = matching_shows
                   /\ show_i' = 1
                   /\ pc' = "show"
    /\ UNCHANGED <<dvr, CONFIG, environ, args, show_max, to_delete, del_i,
                   success_count, total_deleted, shows_cleaned, attempts>>

\* one iteration of the for loop, up to the deletions
ProcessShow ==
    /\ pc = "show"
    /\ LET title == shows[show_i].title
           recs == shows[show_i].recs
           max == get_max_episodes_for_show(title, args.max_episodes)
       IN  /\ show_max' = max
           /\ IF Len(recs) > max
              THEN /\ shows' = [shows EXCEPT ![show_i].recs = SortByStartTime(recs)]
                   /\ to_delete' = Trim(SortByStartTime(recs), max)
                   /\ del_i' = 1
                   /\ success_count' = 0
                   /\ pc' = "delete"
                   /\ UNCHANGED <<show_i, logs>>
              ELSE /\ logs' = Append(logs,
                                 Msg("debug", "no_cleanup_needed", title, Len(recs), max))
                   /\ NextShow
                   /\ UNCHANGED <<shows, to_delete, del_i, success_count>>
    /\ UNCHANGED <<dvr, CONFIG, environ, args, all_recordings, total_deleted,
                   shows_cleaned, attempts, notes, delivery_failed>>

\* for r in to_delete: one call of delete_recording
DeleteRecording ==
    /\ pc = "delete"
    /\ del_i <= Len(to_delete)
    /\ \E resp \in Responses :
        LET r == to_delete[del_i]
            done == delete_recording(r, resp)
        IN  /\ attempts' = Append(attempts,
                              [ix |-> r.ix, title |-> shows[show_i].title,
                               posted |-> done.posted,
                               http200 |-> done.posted /\ resp = Ok200,
                               ret |-> done.ret])
            /\ success_count' = IF done.ret THEN success_count + 1 ELSE success_count
    /\ del_i' = del_i + 1
    /\ UNCHANGED <<dvr, CONFIG, environ, args, pc, all_recordings, shows, show_i,
                   show_max, to_delete, total_deleted, shows_cleaned, notes, logs,
                   delivery_failed>>

\* the end of an iteration that deleted: the count and the show's notification
FinishShow ==
    /\ pc = "delete"
    /\ del_i > Len(to_delete)
    /\ logs' = Append(logs, Msg("info", "deleted", shows[show_i].title,
                                success_count, Len(to_delete)))
    /\ IF success_count > 0
       THEN /\ shows_cleaned' = shows_cleaned + 1
            /\ total_deleted' = total_deleted + success_count
            /\ Notify(<<Msg("success", "deleted", shows[show_i].title,
                            success_count, Len(to_delete))>>)
       ELSE UNCHANGED <<shows_cleaned, total_deleted, notes, delivery_failed>>
    /\ NextShow
    /\ UNCHANGED <<dvr, CONFIG, environ, args, all_recordings, shows, show_max,
                   to_delete, del_i, success_count, attempts>>

\* after the for loop: the summary, and the return to main
FinishPass ==
    /\ pc = "summary"
    /\ IF total_deleted > 0
       THEN Notify(<<Msg("info", "complete", EmptyStr, shows_cleaned, total_deleted)>>)
       ELSE UNCHANGED <<notes, delivery_failed>>
    /\ logs' = logs \o Returned
    /\ pc' = AfterPass
    /\ UNCHANGED <<dvr, CONFIG, environ, args, all_recordings, shows, show_i,
                   show_max, to_delete, del_i, success_count, total_deleted,
                   shows_cleaned, attempts>>

\* the values of the pass variables when no pass has run
NoPass ==
    /\ all_recordings = << >>
    /\ shows = << >>
    /\ show_i = 0
    /\ show_max = 0
    /\ to_delete = << >>
    /\ del_i = 0
    /\ success_count = 0
    /\ total_deleted = 0
    /\ shows_cleaned = 0
    /\ attempts = << >>
    /\ notes = << >>
    /\ logs = << >>
    /\ delivery_failed = FALSE

\* time.sleep(poll_interval_seconds), then the next call of cleanup_all_shows
Sleep ==
    /\ pc = "sleep"
    /\ pc' = "pass"
    /\ dvr' = Idle
    /\ all_recordings' = << >>
    /\ shows' = << >>
    /\ show_i' = 0
    /\ show_max' = 0
    /\ to_delete' = << >>
    /\ del_i' = 0
    /\ success_count' = 0
    /\ total_deleted' = 0
    /\ shows_cleaned' = 0
    /\ attempts' = << >>
    /\ notes' = << >>
    /\ logs' = << >>
    /\ delivery_failed' = FALSE
    /\ UNCHANGED <<CONFIG, environ, args>>

NextPass ==
    \/ CleanupBegin
    \/ ProcessShow
    \/ DeleteRecording
    \/ FinishShow
    \/ FinishPass

Next ==
    \/ Main
    \/ ListShows
    \/ Recorded
    \/ CleanupBegin
    \/ ProcessShow
    \/ DeleteRecording
    \/ FinishShow
    \/ FinishPass
    \/ Sleep

----------------------------------------------------------------------------
(* Specifications *)

Start(setups, at, answers) ==
    /\ \E s \in setups :
          CONFIG = s.CONFIG /\ environ = s.environ /\ args = s.args
    /\ pc = at
    /\ dvr \in answers
    /\ NoPass

\* the program from its start
Init == Start(PolicySetups \cup ModeSetups \cup NotifierSetups, "main", {Idle})

Spec == Init /\ [][Next]_vars

\* the retention policy on one show group, in one-shot mode
PolicyEpisodes(title) ==
    {("Title" :> title) @@ ("CmdURL" :> UrlId) @@ t :
        t \in Opt("StartTime", {0, 1})}

PolicyAnswers ==
    {[ok |-> TRUE,
      series |-> <<[json |-> ("Title" :> TA) @@ ("EpisodesURL" :> <<"u">>),
                    ok |-> TRUE, episodes |-> l]>>] :
        l \in SeqsUpTo(PolicyEpisodes(TA), MaxGroup) \ {<< >>}}

RetentionSetups ==
    {Setup(Config(d, o, DiscordOn), Webhook, Args(FALSE, None, TRUE, m)) :
        d \in {0, MaxK},
        o \in {EmptyDict, (Lower(TA) :> 0)} \cup {(TA :> k) : k \in 0..MaxK},
        m \in {None} \cup {Some(k) : k \in 0..MaxK}}

InitPolicy == Start(RetentionSetups, "fetch", PolicyAnswers)

SpecPolicy == InitPolicy /\ [][NextPass]_vars

\* the fetch over every combination of series answers, in one-shot mode
FetchLists ==
    {<< >>,
     <<("Title" :> TA) @@ ("StartTime" :> 1) @@ ("CmdURL" :> UrlId)>>,
     <<("FileID" :> FileId),
       ("Title" :> TA) @@ ("StartTime" :> 1) @@ ("CmdURL" :> UrlId)>>}

FetchAnswers ==
    {[ok |-> o, series |-> l] :
        o \in BOOLEAN,
        l \in SeqsUpTo(SeriesAnswers(TA, FetchLists)
                          \cup SeriesAnswers(TB, FetchLists), MaxSeries)}

FetchSetups ==
    {Setup(Config(1, EmptyDict, d), Webhook, Args(FALSE, None, TRUE, None)) :
        d \in {DiscordOn, Discord(FALSE, TRUE, TRUE, TRUE)}}

InitFetch == Start(FetchSetups, "fetch", FetchAnswers)

SpecFetch == InitFetch /\ [][NextPass]_vars

\* the deletion of one recording over every combination of its fields
DeleteAnswers ==
    {[ok |-> TRUE,
      series |-> <<[json |-> ("Title" :> TA) @@ ("EpisodesURL" :> <<"u">>),
                    ok |-> TRUE,
                    episodes |-> <<("Title" :> TA) @@ c @@ u @@ f>>]>>] :
        c \in Opt("CmdURL", {UrlPlain, UrlId, UrlIdAmp, UrlIdEmpty,
                             UrlIdEmptyAmp, UrlVid}),
        u \in Opt("PlayURL", {UrlPlain, UrlPlayId, UrlIdEmpty}),
        f \in Opt("FileID", {EmptyStr, FileId})}

DeleteSetups ==
    {Setup(Config(1, EmptyDict, DiscordOn), Webhook,
           Args(FALSE, None, TRUE, Some(0)))}

InitDelete == Start(DeleteSetups, "fetch", DeleteAnswers)

SpecDelete == InitDelete /\ [][NextPass]_vars

\* the program under the scheduling of its single thread: a step that can
\* be taken is taken (every network call has a timeout, the sleep is finite)
LiveSetups ==
    {Setup(Config(1, (TB :> 0), DiscordOn), Webhook, a) :
        a \in {Args(FALSE, None, FALSE, None), Args(TRUE, None, FALSE, None),
               Args(FALSE, None, TRUE, None),
               Args(FALSE, Some(<<"b", "a">>), FALSE, None)}}

InitLive == Start(LiveSetups, "main", {Idle})

LiveSpec == InitLive /\ [][Next]_vars /\ WF_vars(Next)

----------------------------------------------------------------------------
(* The vocabulary of the properties, stated on the fetched list itself:    *)
(* episode i is all_recordings[i], the i-th episode in fetch order.        *)

Episodes == 1..Len(all_recordings)

TimeOf(i) ==
    IF "StartTime" \in DOMAIN all_recordings[i]
    THEN all_recordings[i].StartTime ELSE 0

ShowOf(i) ==
    IF "Title" \in DOMAIN all_recordings[i]
    THEN all_recordings[i].Title ELSE Unknown

GroupOf(t) == {i \in Episodes : ShowOf(i) = t}

\* j is newer than i: a later start, or the same start and fetched later
Newer(j, i) ==
    \/ TimeOf(j) > TimeOf(i)
    \/ TimeOf(j) = TimeOf(i) /\ j > i

\* how many episodes of i's show are newer than i
NewerCount(i) == Cardinality({j \in GroupOf(ShowOf(i)) : Newer(j, i)})

\* the retention count of show t by the documented priority
KeepCount(t) ==
    IF args.max_episodes.some THEN args.max_episodes.val
    ELSE IF t \in DOMAIN CONFIG.show_overrides THEN CONFIG.show_overrides[t]
    ELSE CONFIG.default_episodes

Attempts == 1..Len(attempts)

AttemptsOf(t) == {n \in Attempts : attempts[n].title = t}

Handed(t) == {attempts[n].ix : n \in AttemptsOf(t)}

HasLog(kind, t) == \E n \in 1..Len(logs) : logs[n].kind = kind /\ logs[n].title = t

HasNote(kind, t) == \E n \in 1..Len(notes) : notes[n].kind = kind /\ notes[n].title = t

CountLogs(kind) == Cardinality({n \in 1..Len(logs) : logs[n].kind = kind})

CountNotes(kind) == Cardinality({n \in 1..Len(notes) : notes[n].kind = kind})

\* the iteration of the for loop over show show_i - 1 has just ended
ShowDone == pc \in {"show", "summary", "sleep", "done"} /\ show_i >= 2

DoneTitle == shows[show_i - 1].title

\* show_max holds the count resolved for show CurTitle
Resolved == pc = "delete" \/ ShowDone

CurTitle == shows[IF pc = "delete" THEN show_i ELSE show_i - 1].title

\* cleanup_all_shows (or the listing) has returned to main
PassEnd == pc \in {"sleep", "done"}

\* the notifier's settings, read off the configuration
WebhookSet ==
    "DISCORD_WEBHOOK_URL" \in DOMAIN environ /\ environ.DISCORD_WEBHOOK_URL # EmptyStr

Toggle(name) ==
    /\ "discord" \in DOMAIN CONFIG
    /\ "enabled" \in DOMAIN CONFIG.discord
    /\ CONFIG.discord.enabled
    /\ (name \in DOMAIN CONFIG.discord => CONFIG.discord[name])
    /\ WebhookSet

ErrorConfigured == Toggle("notify_on_error")

CleanupConfigured == Toggle("notify_on_cleanup")

----------------------------------------------------------------------------
(* C1  Trimming a group of n episodes to a count k with 0 < k < n hands    *)
(* exactly n - k episodes to delete_recording, and the episodes not handed *)
(* over are exactly the k newest: those with fewer than k episodes of the  *)
(* group newer than them, by StartTime (missing = 0) and then fetch order; *)
(* whatever the order the episodes were fetched in.                        *)
C1_KeepsNewest ==
    ShowDone =>
        LET t == DoneTitle
            n == Cardinality(GroupOf(t))
            k == show_max
        IN  (0 < k /\ k < n) =>
               /\ Cardinality(AttemptsOf(t)) = n - k
               /\ Cardinality(Handed(t)) = n - k
               /\ \A i \in GroupOf(t) : (i \notin Handed(t)) <=> (NewerCount(i) < k)

\* a group fetched out of order whose tie between a missing StartTime and 0
\* is split by the trim
C1_Witness ==
    /\ ShowDone
    /\ 0 < show_max
    /\ show_max < Cardinality(GroupOf(DoneTitle))
    /\ \E i, j \in GroupOf(DoneTitle) :
          /\ i < j
          /\ TimeOf(i) = TimeOf(j)
          /\ "StartTime" \notin DOMAIN all_recordings[i]
          /\ i \in Handed(DoneTitle)
          /\ j \notin Handed(DoneTitle)
    /\ \E i, j \in GroupOf(DoneTitle) : i < j /\ TimeOf(i) > TimeOf(j)

(* C2  The count resolved for a show is the global override when one is    *)
(* passed (0 included), else the per-show override whose key equals the    *)
(* title (0 included), else default_episodes.                              *)
C2_Priority ==
    Resolved =>
        /\ args.max_episodes.some => show_max = args.max_episodes.val
        /\ (~args.max_episodes.some /\ CurTitle \in DOMAIN CONFIG.show_overrides)
              => show_max = CONFIG.show_overrides[CurTitle]
        /\ (~args.max_episodes.some /\ CurTitle \notin DOMAIN CONFIG.show_overrides)
              => show_max = CONFIG.default_episodes

\* a global override of 0 over a per-show override and a default that differ
C2_Witness ==
    /\ Resolved
    /\ args.max_episodes = Some(0)
    /\ CurTitle \in DOMAIN CONFIG.show_overrides
    /\ CONFIG.show_overrides[CurTitle] # 0
    /\ CONFIG.default_episodes # 0
    /\ show_max = 0

(* C3  A resolved count of 0 hands every episode of the group to           *)
(* delete_recording, and an override of 0, global or per-show, is the      *)
(* resolved count: it never falls through to a lower priority.             *)
C3_ZeroDeletesAll ==
    /\ Resolved =>
          /\ args.max_episodes = Some(0) => show_max = 0
          /\ (args.max_episodes = None
                /\ CurTitle \in DOMAIN CONFIG.show_overrides
                /\ CONFIG.show_overrides[CurTitle] = 0) => show_max = 0
    /\ (ShowDone /\ show_max = 0) =>
          /\ Handed(DoneTitle) = GroupOf(DoneTitle)
          /\ Cardinality(AttemptsOf(DoneTitle)) = Cardinality(GroupOf(DoneTitle))

\* a per-show override of 0 under a default that is not 0, on several episodes
C3_Witness ==
    /\ ShowDone
    /\ show_max = 0
    /\ args.max_episodes = None
    /\ DoneTitle \in DOMAIN CONFIG.show_overrides
    /\ CONFIG.default_episodes # 0
    /\ Cardinality(GroupOf(DoneTitle)) >= 2
    /\ Handed(DoneTitle) = GroupOf(DoneTitle)

(* C4  In every pass no delete request is issued for one of the k newest   *)
(* episodes of its show in that pass's fetch, k the show's retention       *)
(* count; a show with at most k episodes gets no delete request.           *)
C4_NewestNeverDeleted ==
    /\ \A n \in Attempts :
          attempts[n].posted =>
             NewerCount(attempts[n].ix) >= KeepCount(attempts[n].title)
    /\ \A i \in Episodes :
          Cardinality(GroupOf(ShowOf(i))) <= KeepCount(ShowOf(i))
             => \A n \in AttemptsOf(ShowOf(i)) : ~attempts[n].posted

\* a pass of continuous mode that requested a deletion and kept an episode
\* of the same show
C4_Witness ==
    /\ Mode = "continuous"
    /\ pc = "sleep"
    /\ \E n \in Attempts :
          /\ attempts[n].posted
          /\ \E i \in GroupOf(attempts[n].title) : i \notin Handed(attempts[n].title)

(* C5  In a pass every episode of a show's deletion set gets exactly one   *)
(* delete attempt, the attempts of a show run oldest first, an attempt     *)
(* that fails stops none of the later ones, and the count reported for a   *)
(* show is the number of its attempts answered with HTTP 200, out of all   *)
(* its attempts.                                                           *)
C5_EveryDeletionAttempted ==
    /\ \A a, b \in Attempts :
          /\ a # b => attempts[a].ix # attempts[b].ix
          /\ (a < b /\ attempts[a].title = attempts[b].title)
                => TimeOf(attempts[a].ix) <= TimeOf(attempts[b].ix)
    /\ pc = "delete" =>
          success_count =
             Cardinality({n \in AttemptsOf(shows[show_i].title) : attempts[n].http200})
    /\ \A n \in 1..Len(logs) :
          logs[n].kind = "deleted" =>
             /\ logs[n].n = Cardinality({a \in AttemptsOf(logs[n].title) :
                                            attempts[a].http200})
             /\ logs[n].m = Cardinality(AttemptsOf(logs[n].title))
    /\ (PassEnd /\ show_i > Len(shows)) =>
          \A i \in Episodes :
             (/\ \E g \in 1..Len(shows) : shows[g].title = ShowOf(i)
              /\ NewerCount(i) >= KeepCount(ShowOf(i)))
                => /\ Cardinality({n \in Attempts : attempts[n].ix = i}) = 1
                   /\ HasLog("deleted", ShowOf(i))

\* a pass whose first attempt failed and whose later attempt was answered 200
C5_Witness ==
    /\ PassEnd
    /\ show_i > Len(shows)
    /\ \E a, b \in Attempts :
          a < b /\ ~attempts[a].ret /\ attempts[b].http200

\* the filter of a targeted cleanup matches no fetched show
NoShowMatches ==
    \A i \in Episodes : ~Contains(Lower(ShowOf(i)), Lower(args.show.val))

\* a targeted cleanup has returned
TargetedReturn == Mode = "show" /\ pc = "done"

(* C6, as stated  A targeted cleanup whose filter matches no show group    *)
(* reports the no-match condition and requests no deletion, for every      *)
(* fetched list.                                                           *)
C6_NoMatchAlwaysReported ==
    (TargetedReturn /\ NoShowMatches) =>
        /\ CountLogs("no_match") >= 1
        /\ attempts = << >>

(* C6, amended  A targeted cleanup whose filter matches no show group      *)
(* requests no deletion; it reports the no-match condition, once and       *)
(* through the notifier when errors are notified, if the fetched list is   *)
(* not empty, and reports only that no recordings were found if it is.     *)
C6_NoMatchReportedUnlessEmpty ==
    (TargetedReturn /\ NoShowMatches) =>
        /\ attempts = << >>
        /\ IF all_recordings = << >>
           THEN /\ CountLogs("no_match") = 0
                /\ CountNotes("no_match") = 0
                /\ CountLogs("no_recordings") = 1
           ELSE /\ CountLogs("no_match") = 1
                /\ CountLogs("no_recordings") = 0
                /\ CountNotes("no_match") = IF ErrorConfigured THEN 1 ELSE 0

\* recordings were fetched and none of their shows matches the filter
C6_Witness ==
    /\ TargetedReturn
    /\ NoShowMatches
    /\ all_recordings # << >>
    /\ CountLogs("no_match") = 1

\* the series whose episode list was fetched
OkShows ==
    {x \in 1..Len(dvr.series) :
        "EpisodesURL" \in DOMAIN dvr.series[x].json /\ dvr.series[x].ok}

RECURSIVE EpisodesBefore(_)
\* the number of episodes fetched from the series before series x
EpisodesBefore(x) ==
    IF x <= 1 THEN 0
    ELSE EpisodesBefore(x - 1)
            + (IF x - 1 \in OkShows THEN Len(dvr.series[x - 1].episodes) ELSE 0)

\* an episode without the fields the fetch adds
Fetched(r) == [k \in DOMAIN r \ {"ix", "SeriesTitle"} |-> r[k]]

(* C7  get_recordings returns the empty list and reports once when the     *)
(* top-level fetch fails; otherwise it returns, in series order, the       *)
(* episodes of exactly the series whose episode fetch succeeded.           *)
C7_FetchResult ==
    pc # "fetch" =>
        IF ~dvr.ok
        THEN /\ all_recordings = << >>
             /\ CountLogs("fetch_failed") = 1
             /\ CountLogs("episodes_failed") = 0
             /\ CountNotes("fetch_failed") = IF ErrorConfigured THEN 1 ELSE 0
             /\ CountNotes("episodes_failed") = 0
        ELSE /\ Len(all_recordings) = EpisodesBefore(Len(dvr.series) + 1)
             /\ CountLogs("fetch_failed") = 0
             /\ \A x \in OkShows :
                   \A j \in 1..Len(dvr.series[x].episodes) :
                      LET r == all_recordings[EpisodesBefore(x) + j] IN
                      /\ Fetched(r) = dvr.series[x].episodes[j]
                      /\ r.SeriesTitle = dvr.series[x].json.Title

\* a failing episode fetch between two series whose episodes are returned
C7_Witness ==
    /\ pc # "fetch"
    /\ dvr.ok
    /\ Len(dvr.series) = 3
    /\ OkShows = {1, 3}
    /\ "EpisodesURL" \in DOMAIN dvr.series[2].json
    /\ dvr.series[1].episodes # << >>
    /\ dvr.series[3].episodes # << >>
    /\ Len(all_recordings) =
          Len(dvr.series[1].episodes) + Len(dvr.series[3].episodes)

\* the field holds an id= parameter with a value
YieldsId(r, field) ==
    /\ field \in DOMAIN r
    /\ \E i \in 1..(Len(r[field]) - 3) :
          /\ SubSeq(r[field], i, i + 2) = IdEq
          /\ r[field][i + 3] # "&"

\* one of the three places holds an identifier
HasIdentifier(r) ==
    \/ YieldsId(r, "CmdURL")
    \/ YieldsId(r, "PlayURL")
    \/ "FileID" \in DOMAIN r /\ r.FileID # EmptyStr

(* C8  delete_recording takes the identifier from CmdURL's id= parameter,  *)
(* else PlayURL's, else FileID; with none of the three it fails without a  *)
(* request, otherwise it posts one delete command and succeeds exactly     *)
(* when the answer is 200.                                                 *)
C8_IdentifierFallback ==
    \A n \in Attempts :
        IF HasIdentifier(all_recordings[attempts[n].ix])
        THEN attempts[n].posted /\ (attempts[n].ret <=> attempts[n].http200)
        ELSE ~attempts[n].posted /\ ~attempts[n].ret

(* C9  In continuous mode the loop never ends: whatever failed in a pass,  *)
(* the pass runs to its end, the process sleeps, and the next pass starts; *)
(* a pass starts only from the start of the program or from the sleep.     *)
C9_LoopNeverEnds ==
    /\ [](Mode = "continuous" => pc # "done")
    /\ (Mode = "continuous" /\ pc = "fetch") ~> (pc = "sleep")
    /\ (pc = "sleep") ~> (pc = "fetch")
    /\ [][pc' = "pass" => pc \in {"main", "sleep"}]_vars
    /\ [][pc' = "fetch" => pc = "pass"]_vars

\* the sleep after a pass in which an episode fetch, a deletion and a
\* notification failed
C9_Witness ==
    /\ Mode = "continuous"
    /\ pc = "sleep"
    /\ delivery_failed
    /\ \E x \in 1..Len(dvr.series) :
          "EpisodesURL" \in DOMAIN dvr.series[x].json /\ ~dvr.series[x].ok
    /\ \E n \in Attempts : ~attempts[n].ret

\* every category of notification is enabled and the webhook is set
FullyConfigured == ErrorConfigured /\ CleanupConfigured

\* the failures of the fetch and of the filter are notified
FetchFailuresNotified ==
    /\ ~dvr.ok => HasNote("fetch_failed", EmptyStr)
    /\ dvr.ok =>
          \A x \in 1..Len(dvr.series) :
             ("EpisodesURL" \in DOMAIN dvr.series[x].json /\ ~dvr.series[x].ok)
                => HasNote("episodes_failed", dvr.series[x].json.Title)
    /\ (Mode = "show" /\ all_recordings # << >> /\ NoShowMatches)
          => HasNote("no_match", args.show.val)

(* C10, as stated  With the notifier configured, every failure of a pass   *)
(* (top-level fetch, episode fetch, deletion, no match) has at least one   *)
(* notification sent in that pass.                                         *)
C10_EveryFailureNotified ==
    (PassEnd /\ FullyConfigured) =>
        /\ FetchFailuresNotified
        /\ (\E n \in Attempts : ~attempts[n].ret)
              => \E m \in 1..Len(notes) : notes[m].kind # "startup"

(* C10, amended  With error notifications configured, a top-level fetch    *)
(* failure, an episode fetch failure and a no-match are each notified in   *)
(* the pass.  A failed deletion is not notified: it is counted in the      *)
(* show's log record, and the show has a notification, with the counts,    *)
(* exactly when one of its deletions succeeded and cleanup notifications   *)
(* are configured.                                                         *)
C10_FetchFailuresNotified ==
    PassEnd =>
        /\ ErrorConfigured => FetchFailuresNotified
        /\ \A n \in Attempts :
              LET t == attempts[n].title
                  good == Cardinality({a \in AttemptsOf(t) : attempts[a].ret})
                  all == Cardinality(AttemptsOf(t))
              IN  /\ \E l \in 1..Len(logs) :
                        /\ logs[l].kind = "deleted" /\ logs[l].title = t
                        /\ logs[l].n = good /\ logs[l].m = all
                  /\ HasNote("deleted", t) <=> (good > 0 /\ CleanupConfigured)
                  /\ \A m \in 1..Len(notes) :
                        (notes[m].kind = "deleted" /\ notes[m].title = t)
                           => notes[m].n = good /\ notes[m].m = all

\* a pass with an episode fetch failure that is notified and a show whose
\* only deletions failed, which has no notification
C10_Witness ==
    /\ PassEnd
    /\ FullyConfigured
    /\ \E x \in 1..Len(dvr.series) :
          /\ "EpisodesURL" \in DOMAIN dvr.series[x].json
          /\ ~dvr.series[x].ok
          /\ HasNote("episodes_failed", dvr.series[x].json.Title)
    /\ \E n \in Attempts :
          /\ ~attempts[n].ret
          /\ ~HasNote("deleted", attempts[n].title)

====
